---- MODULE Spec2Model ----
(***************************************************************************)
(* Forecast-and-recommend pipeline of final_comprehensive_app.py:          *)
(* fetch_stock_data, predict_price_movement, analyze_single_stock,         *)
(* find_top_recommendations and the three tabs of the Streamlit script.    *)
(*                                                                         *)
(* Prices are exact rationals [num, den] with den > 0; the model does not  *)
(* follow binary floating-point rounding.                                  *)
(***************************************************************************)
EXTENDS Integers, Sequences, FiniteSets, TLC

VARIABLES
    pc,               \* position of the running handler
    data,             \* argument of predict_price_movement
    days,             \* argument of predict_price_movement
    forecast,         \* <<current_price, predicted_price>> it returned
    stock,            \* the yf.Ticker handle given to analyze_single_stock
    current_price,    \* argument of analyze_single_stock
    predicted_price,  \* argument of analyze_single_stock
    analysis,         \* what analyze_single_stock rendered
    idx,              \* loop position of find_top_recommendations
    results,          \* find_top_recommendations: results
    sorted_results,   \* find_top_recommendations: sorted_results
    processed,        \* tickers the first loop has taken, in order
    screened,         \* tickers handed to analyze_single_stock, in order
    warnings,         \* st.warning messages of the batch run
    session,          \* st.session_state: stock_data, selected_stock
    cache,            \* st.cache_data store of fetch_stock_data
    requests,         \* symbols sent to the external providers
    options_view      \* what the Options Analysis tab did in the last run

vars == <<pc, data, days, forecast, stock, current_price, predicted_price,
          analysis, idx, results, sorted_results, processed, screened,
          warnings, session, cache, requests, options_view>>

forecastVars == <<data, days, forecast>>
screenVars == <<stock, current_price, predicted_price, analysis>>
batchVars == <<idx, results, sorted_results, processed, screened, warnings>>
sessionVars == <<session, cache, options_view>>

----------------------------------------------------------------------------
(* Bounds of the model *)

MaxLen == 4          \* longest price series of the forecaster inputs
MaxClose == 3        \* closes of the forecaster inputs are 100 + 0..MaxClose
MaxDays == 2         \* horizons 0..MaxDays, and the default
MaxChain == 2        \* contracts in a call or put chain
UniverseSize == 6    \* tickers of top_50_stocks the batch run iterates
MaxRange == 2        \* distinct (start_date, end_date) pairs the user can enter

----------------------------------------------------------------------------
(* Values *)

None == [none |-> TRUE]

\* A non-finite Close value (np.nan); every real close is > 0.
NaN == -1

Float(n) == [num |-> n, den |-> 1]
Lt(a, b) == a.num * b.den < b.num * a.den
Gt(a, b) == Lt(b, a)
Le(a, b) == ~Lt(b, a)
Ge(a, b) == ~Lt(a, b)
Eq(a, b) == a.num * b.den = b.num * a.den
Sub(a, b) == [num |-> a.num * b.den - b.num * a.den, den |-> a.den * b.den]
Abs(a) == [num |-> IF a.num < 0 THEN 0 - a.num ELSE a.num, den |-> a.den]
\* a * (n / d), for the literals 1.05 = 105/100 and 0.95 = 95/100
Scale(a, n, d) == [num |-> a.num * n, den |-> a.den * d]

RECURSIVE SumTo(_, _)
SumTo(f, n) == IF n = 0 THEN 0 ELSE f[n] + SumTo(f, n - 1)

----------------------------------------------------------------------------
(* predict_price_movement *)

DefaultDays == 7

\* LinearRegression().fit(X, y) with X = 0..n-1 and y = closes, then
\* predict([[x]]): the least-squares line through (i-1, y[i]) evaluated at x.
\*   D = n*Sxx - Sx^2, N = n*Sxy - Sx*Sy
\*   prediction = Sy/n + (N/D) * (x - Sx/n) = (Sy*D + N*(n*x - Sx)) / (n*D)
LinearRegressionPredict(y, x) ==
    LET n == Len(y)
        Sx == SumTo([i \in 1..n |-> i - 1], n)
        Sy == SumTo(y, n)
        Sxy == SumTo([i \in 1..n |-> (i - 1) * y[i]], n)
        Sxx == SumTo([i \in 1..n |-> (i - 1) * (i - 1)], n)
        D == n * Sxx - Sx * Sx
        N == n * Sxy - Sx * Sy
    IN [num |-> Sy * D + N * (n * x - Sx), den |-> n * D]

\* sklearn rejects NaN in y (ValueError), and an empty array in predict.
FitRaises(y, d) == (\E i \in 1..Len(y) : y[i] = NaN) \/ d <= 0

future_days_off(n, d) == [k \in 1..d |-> n + k]

\* future_days = np.arange(len(data), len(data) + days)
future_days(n, d) == [k \in 1..d |-> n + k - 1]

predict_price_movement_nolast(df, d) ==
    IF df = None \/ Len(df.Close) < 2 THEN <<None, None>>
    ELSE IF FitRaises(df.Close, d) THEN <<None, None>>
    ELSE LET y == df.Close
             predictions == [k \in 1..d |->
                                LinearRegressionPredict(y, future_days(Len(y), d)[k])]
         IN <<Float(y[1]), predictions[d]>>

predict_price_movement(df, d) ==
    IF df = None \/ Len(df.Close) < 2 THEN <<None, None>>
    ELSE IF FitRaises(df.Close, d) THEN <<None, None>>
    ELSE LET y == df.Close
             predictions == [k \in 1..d |->
                                LinearRegressionPredict(y, future_days(Len(y), d)[k])]
         IN <<Float(y[Len(y)]), predictions[d]>>

----------------------------------------------------------------------------
(* analyze_single_stock *)

\* calls[(calls['strike'] >= current_price * 0.95) & (calls['strike'] <= current_price * 1.05)]
relevant_strict(chain, cur) ==
    SelectSeq(chain, LAMBDA c : /\ Gt(c.strike, Scale(cur, 95, 100))
                                /\ Lt(c.strike, Scale(cur, 105, 100)))

relevant(chain, cur) ==
    SelectSeq(chain, LAMBDA c : /\ Ge(c.strike, Scale(cur, 95, 100))
                                /\ Le(c.strike, Scale(cur, 105, 100)))

recommendation_inclusive(cur, pred) ==
    IF Ge(pred, Scale(cur, 105, 100)) THEN "BUY_CALLS"
    ELSE IF Le(pred, Scale(cur, 95, 100)) THEN "BUY_PUTS"
    ELSE "HOLD"

recommendation(cur, pred) ==
    IF Gt(pred, Scale(cur, 105, 100)) THEN "BUY_CALLS"
    ELSE IF Lt(pred, Scale(cur, 95, 100)) THEN "BUY_PUTS"
    ELSE "HOLD"

NoAnalysis == [raised |-> FALSE, warning |-> "", expiry |-> 0,
               relevant_calls |-> <<>>, relevant_puts |-> <<>>,
               recommendation |-> "NONE"]

\* s is a handle: [symbol, info, options, option_chain], where info is "ok" or
\* "raise", options the expiry dates, option_chain[e] the chain of expiry e or
\* None when the provider call raises.
analyze_single_stock(s, cur, pred) ==
    IF s.info = "raise"
    THEN [NoAnalysis EXCEPT !.raised = TRUE]
    ELSE IF s.options = <<>>
    THEN [NoAnalysis EXCEPT !.warning = "No options data available"]
    ELSE LET expiry == s.options[1]
             options_chain == s.option_chain[expiry]
         IN IF options_chain = None
            THEN [NoAnalysis EXCEPT !.warning = "Error analyzing options",
                                    !.expiry = expiry]
            ELSE [raised |-> FALSE, warning |-> "", expiry |-> expiry,
                  relevant_calls |-> relevant(options_chain.calls, cur),
                  relevant_puts |-> relevant(options_chain.puts, cur),
                  recommendation |-> recommendation(cur, pred)]

----------------------------------------------------------------------------
(* Tickers and the market-data provider *)

top_50_stocks == <<
    <<"A","A","P","L">>, <<"M","S","F","T">>, <<"G","O","O","G","L">>,
    <<"A","M","Z","N">>, <<"T","S","L","A">>, <<"M","E","T","A">>,
    <<"N","V","D","A">>, <<"B","R","K",".","B">>, <<"V">>, <<"J","P","M">>,
    <<"J","N","J">>, <<"W","M","T">>, <<"P","G">>, <<"U","N","H">>, <<"H","D">>,
    <<"M","A">>, <<"D","I","S">>, <<"P","Y","P","L">>, <<"B","A","C">>,
    <<"N","F","L","X">>,
    <<"A","D","B","E">>, <<"K","O">>, <<"P","E","P">>, <<"N","K","E">>, <<"T">>,
    <<"P","F","E">>, <<"M","R","K">>, <<"I","N","T","C">>, <<"X","O","M">>,
    <<"C","S","C","O">>,
    <<"O","R","C","L">>, <<"C","M","C","S","A">>, <<"A","B","T">>, <<"C","R","M">>,
    <<"C","O","S","T">>, <<"V","Z">>, <<"A","C","N">>, <<"A","M","D">>,
    <<"U","P","S">>, <<"Q","C","O","M">>,
    <<"T","X","N">>, <<"A","V","G","O">>, <<"L","I","N">>, <<"L","O","W">>,
    <<"H","O","N">>, <<"A","M","G","N">>, <<"C","V","X">>, <<"M","D","T">>,
    <<"P","M">>, <<"N","E","E">> >>

\* The slice of top_50_stocks the batch run iterates: TSLA, META, NVDA, BRK.B, ...
Universe == SubSeq(top_50_stocks, 5, 4 + UniverseSize)

\* ticker.replace(".", "-")
Normalize(ticker) == [i \in DOMAIN ticker |-> IF ticker[i] = "." THEN "-" ELSE ticker[i]]

Letters(symbol) == SelectSeq(symbol, LAMBDA ch : ch \notin {".", "-"})

\* The place of a company in top_50_stocks, whatever separator its symbol has.
Listing ==
    [letters \in {Letters(top_50_stocks[i]) : i \in DOMAIN top_50_stocks} |->
        CHOOSE i \in DOMAIN top_50_stocks : Letters(top_50_stocks[i]) = letters]

\* The provider quotes every company at its own price level, so a price series
\* tells which company it belongs to, and with its own daily trend.
PriceLevel(symbol) == 100 + 10 * Listing[Letters(symbol)]
Trend(symbol) == (Listing[Letters(symbol)] % 4) - 1

\* n daily bars of `symbol`.
History(symbol, n) ==
    [Close |-> [i \in 1..n |-> PriceLevel(symbol) + Trend(symbol) * (i - 1)]]

\* What yf.download can answer: an empty frame, an exception, or a frame of
\* 1 or 3 bars.
Responses(symbol) ==
    {[kind |-> "empty"], [kind |-> "error"]}
        \cup {[kind |-> "frame", frame |-> History(symbol, n)] : n \in {1, 3}}

----------------------------------------------------------------------------
(* fetch_stock_data, memoized by st.cache_data on (ticker, start_date, end_date) *)

Miss == [miss |-> TRUE]

\* The body of fetch_stock_data, run on a cache miss.
fetch_body(resp) == IF resp.kind = "frame" THEN resp.frame ELSE None

fetch_stock_data(store, ticker, rng, resp) ==
    IF store[<<ticker, rng>>] # Miss THEN store[<<ticker, rng>>] ELSE fetch_body(resp)

\* The download request the call sends, if any.
fetch_requests(store, ticker, rng) ==
    IF store[<<ticker, rng>>] # Miss THEN {}
    ELSE {[api |-> "download", symbol |-> Normalize(ticker)]}

----------------------------------------------------------------------------
(* Values the variables of a handler hold while another one is studied *)

NoTicker == <<>>   \* selected_stock = None (a ticker is a non-empty string)

NoHandle == [symbol |-> NoTicker, info |-> "ok", options |-> <<>>,
             option_chain |-> [e \in {} |-> None]]

NoView == [shown |-> "", symbol |-> NoTicker, stock_data |-> None]

NoWarnings == [processing |-> 0, no_valid |-> 0, options |-> 0]

ForecastIdle == data = None /\ days = DefaultDays /\ forecast = <<None, None>>

ScreenIdle ==
    /\ stock = NoHandle
    /\ current_price = None
    /\ predicted_price = None
    /\ analysis = NoAnalysis

BatchIdle ==
    /\ idx = 1
    /\ results = <<>>
    /\ sorted_results = <<>>
    /\ processed = <<>>
    /\ screened = <<>>
    /\ warnings = NoWarnings

SessionIdle ==
    /\ session = [stock_data |-> None, selected_stock |-> NoTicker]
    /\ options_view = NoView

----------------------------------------------------------------------------
(* predict_price_movement applied to bounded inputs *)

Seqs(S, n) == UNION {[1..k -> S] : k \in 0..n}

CloseValues == {NaN} \cup {100 + k : k \in 0..MaxClose}

\* The closes of the scenario of the documentation.
ScenarioSeries == <<100, 101, 102, 103, 104>>

ForecastInputs ==
    {None} \cup {[Close |-> s] : s \in Seqs(CloseValues, MaxLen) \cup {ScenarioSeries}}

Horizons == (0..MaxDays) \cup {DefaultDays}

InitForecast ==
    /\ pc = "call"
    /\ data \in ForecastInputs
    /\ days \in Horizons
    /\ forecast = <<None, None>>
    /\ ScreenIdle /\ BatchIdle /\ SessionIdle
    /\ cache = <<>> /\ requests = {}

PredictPriceMovement ==
    /\ pc = "call"
    /\ forecast' = predict_price_movement(data, days)
    /\ pc' = "done"
    /\ UNCHANGED <<data, days, screenVars, batchVars, sessionVars, cache, requests>>

NextForecast == PredictPriceMovement

SpecForecast == InitForecast /\ [][NextForecast]_vars

----------------------------------------------------------------------------
(* analyze_single_stock applied to bounded inputs *)

Strikes == {19, 21, 22, 95, 105}

Contracts(strikes, e) ==
    [i \in DOMAIN strikes |-> [strike |-> Float(strikes[i]), expiry |-> e, row |-> i]]

Handle(symbol, info, opts, ok, cs, ps) ==
    [symbol |-> symbol, info |-> info, options |-> opts,
     option_chain |-> [e \in {1, 2} |->
        IF ok THEN [calls |-> Contracts(cs, e), puts |-> Contracts(ps, e)] ELSE None]]

\* Handles whose provider is down, has no options, or fails on the chain.
FailingHandles(symbol) ==
    {Handle(symbol, "raise", <<>>, FALSE, <<>>, <<>>),
     Handle(symbol, "ok", <<>>, FALSE, <<>>, <<>>),
     Handle(symbol, "ok", <<1, 2>>, FALSE, <<>>, <<>>)}

\* The expiry dates of an answering handle come nearest first; the chain of
\* each expiry carries that expiry in its contracts.
ScreenHandles ==
    FailingHandles(<<"V">>)
        \cup {Handle(<<"V">>, "ok", <<1>>, TRUE, <<95, 22>>, <<105>>)}
        \cup {Handle(<<"V">>, "ok", <<2, 1>>, TRUE, cs, ps) :
                cs \in Seqs(Strikes, MaxChain), ps \in Seqs(Strikes, MaxChain)}

CurrentPrices == {Float(20), Float(100)}

\* Predictions at 94%, 95%, 100%, 105% and 106% of the current price.
PredictedPrices(cur) == {Scale(cur, k, 100) : k \in {94, 95, 100, 105, 106}}

InitScreen ==
    /\ pc = "call"
    /\ stock \in ScreenHandles
    /\ current_price \in CurrentPrices
    /\ predicted_price \in PredictedPrices(current_price)
    /\ analysis = NoAnalysis
    /\ ForecastIdle /\ BatchIdle /\ SessionIdle
    /\ cache = <<>> /\ requests = {}

AnalyzeSingleStock ==
    /\ pc = "call"
    /\ analysis' = analyze_single_stock(stock, current_price, predicted_price)
    /\ pc' = "done"
    /\ UNCHANGED <<stock, current_price, predicted_price, forecastVars, batchVars,
                   sessionVars, cache, requests>>

NextScreen == AnalyzeSingleStock

SpecScreen == InitScreen /\ [][NextScreen]_vars

----------------------------------------------------------------------------
(* find_top_recommendations *)

TopN == 5

Ticker(entry) == entry[1]
Movement(entry) == entry[4]

\* isinstance(x, (int, float)): the prices are numpy float64, a subclass of float.
IsNumber(x) == x # None

\* valid_results
valid_results(res) ==
    SelectSeq(res, LAMBDA entry : /\ Len(entry) = 4
                                  /\ \A k \in 2..4 : IsNumber(entry[k]))

\* sorted(..., key=lambda x: x[3], reverse=True) is stable: an entry goes after
\* every entry whose movement is greater than or equal to its own.
InsertDescending(sorted, entry) ==
    LET p == Cardinality({i \in DOMAIN sorted : Ge(Movement(sorted[i]), Movement(entry))})
    IN SubSeq(sorted, 1, p) \o <<entry>> \o SubSeq(sorted, p + 1, Len(sorted))

RECURSIVE SortedDescending(_)
SortedDescending(res) ==
    IF res = <<>> THEN <<>>
    ELSE InsertDescending(SortedDescending(SubSeq(res, 1, Len(res) - 1)), res[Len(res)])

top_results_unsorted(valid) ==
    SubSeq(valid, 1, IF Len(valid) < TopN THEN Len(valid) ELSE TopN)

\* sorted(valid_results, key=..., reverse=True)[:5]
top_results(valid) ==
    LET s == SortedDescending(valid)
    IN SubSeq(s, 1, IF Len(s) < TopN THEN Len(s) ELSE TopN)

\* The key of the batch run's fetches: (2022-01-01, date.today()).
BatchRange == <<2022, "today">>

\* Handles yf.Ticker(symbol) can give the batch run and the tabs.
Handles(symbol) ==
    FailingHandles(symbol) \cup {Handle(symbol, "ok", <<1, 2>>, TRUE, <<95, 105>>, <<22>>)}

InitBatch ==
    /\ pc = "load"
    /\ BatchIdle
    /\ cache = [key \in {<<Universe[i], BatchRange>> : i \in DOMAIN Universe} |-> Miss]
    /\ requests = {}
    /\ ForecastIdle /\ ScreenIdle /\ SessionIdle

\* One iteration of `for ticker in top_50_stocks` (lines 97-111). `raise` is an
\* exception escaping the body of the try, taken at its first statement.
BatchLoadAbort ==
    /\ pc = "load"
    /\ \E raise \in BOOLEAN, resp \in Responses(Normalize(Universe[idx])) :
        LET ticker == Universe[idx]
            stock_data == fetch_stock_data(cache, ticker, BatchRange, resp)
            fc == predict_price_movement(stock_data, DefaultDays)
            ok == ~raise /\ stock_data # None /\ fc[1] # None /\ fc[2] # None
        IN /\ processed' = Append(processed,
                                  [ticker |-> ticker, raised |-> raise,
                                   stock_data |-> IF raise THEN None ELSE stock_data])
           /\ cache' = IF raise THEN cache
                       ELSE [cache EXCEPT ![<<ticker, BatchRange>>] = stock_data]
           /\ requests' = IF raise THEN requests
                          ELSE requests \cup fetch_requests(cache, ticker, BatchRange)
           /\ warnings' = IF raise
                          THEN [warnings EXCEPT !.processing = @ + 1]
                          ELSE warnings
           /\ results' = IF ok
                         THEN Append(results, <<ticker, fc[1], fc[2], Abs(Sub(fc[2], fc[1]))>>)
                         ELSE results
           /\ idx' = idx + 1
           /\ pc' = IF idx = Len(Universe) \/ ~ok THEN "rank" ELSE "load"
    /\ UNCHANGED <<sorted_results, screened, forecastVars, screenVars, session,
                   options_view>>

BatchLoad ==
    /\ pc = "load"
    /\ \E raise \in BOOLEAN, resp \in Responses(Normalize(Universe[idx])) :
        LET ticker == Universe[idx]
            stock_data == fetch_stock_data(cache, ticker, BatchRange, resp)
            fc == predict_price_movement(stock_data, DefaultDays)
            ok == ~raise /\ stock_data # None /\ fc[1] # None /\ fc[2] # None
        IN /\ processed' = Append(processed,
                                  [ticker |-> ticker, raised |-> raise,
                                   stock_data |-> IF raise THEN None ELSE stock_data])
           /\ cache' = IF raise THEN cache
                       ELSE [cache EXCEPT ![<<ticker, BatchRange>>] = stock_data]
           /\ requests' = IF raise THEN requests
                          ELSE requests \cup fetch_requests(cache, ticker, BatchRange)
           /\ warnings' = IF raise
                          THEN [warnings EXCEPT !.processing = @ + 1]
                          ELSE warnings
           /\ results' = IF ok
                         THEN Append(results, <<ticker, fc[1], fc[2], Abs(Sub(fc[2], fc[1]))>>)
                         ELSE results
           /\ idx' = idx + 1
           /\ pc' = IF idx = Len(Universe) THEN "rank" ELSE "load"
    /\ UNCHANGED <<sorted_results, screened, forecastVars, screenVars, session,
                   options_view>>

\* Lines 113-118: filter, the "no valid recommendations" exit, sort and slice.
BatchRankNoCheck ==
    /\ pc = "rank"
    /\ sorted_results' = top_results(valid_results(results))
    /\ idx' = 1
    /\ pc' = IF valid_results(results) = <<>> THEN "done" ELSE "screen"
    /\ UNCHANGED <<results, processed, screened, warnings, cache, requests,
                   forecastVars, screenVars, session, options_view>>

BatchRank ==
    /\ pc = "rank"
    /\ IF valid_results(results) = <<>>
       THEN /\ warnings' = [warnings EXCEPT !.no_valid = @ + 1]
            /\ pc' = "done"
            /\ UNCHANGED <<sorted_results, idx>>
       ELSE /\ sorted_results' = top_results(valid_results(results))
            /\ idx' = 1
            /\ pc' = "screen"
            /\ UNCHANGED warnings
    /\ UNCHANGED <<results, processed, screened, cache, requests,
                   forecastVars, screenVars, session, options_view>>

\* One iteration of the loop over sorted_results (lines 120-126).
BatchScreenAbort ==
    /\ pc = "screen"
    /\ \E h \in Handles(Normalize(Ticker(sorted_results[idx]))) :
        LET entry == sorted_results[idx]
            shown == analyze_single_stock(h, entry[2], entry[3])
        IN /\ requests' = requests \cup {[api |-> "Ticker", symbol |-> h.symbol]}
           /\ screened' = Append(screened, Ticker(entry))
           /\ warnings' = IF shown.raised
                          THEN [warnings EXCEPT !.options = @ + 1]
                          ELSE warnings
           /\ pc' = IF idx = Len(sorted_results) \/ shown.raised THEN "done" ELSE "screen"
    /\ idx' = idx + 1
    /\ UNCHANGED <<results, sorted_results, processed, cache, forecastVars,
                   screenVars, session, options_view>>

BatchScreen ==
    /\ pc = "screen"
    /\ \E h \in Handles(Normalize(Ticker(sorted_results[idx]))) :
        LET entry == sorted_results[idx]
            shown == analyze_single_stock(h, entry[2], entry[3])
        IN /\ requests' = requests \cup {[api |-> "Ticker", symbol |-> h.symbol]}
           /\ screened' = Append(screened, Ticker(entry))
           /\ warnings' = IF shown.raised
                          THEN [warnings EXCEPT !.options = @ + 1]
                          ELSE warnings
    /\ idx' = idx + 1
    /\ pc' = IF idx = Len(sorted_results) THEN "done" ELSE "screen"
    /\ UNCHANGED <<results, sorted_results, processed, cache, forecastVars,
                   screenVars, session, options_view>>

NextBatch == BatchLoad \/ BatchRank \/ BatchScreen

SpecBatch == InitBatch /\ [][NextBatch]_vars

----------------------------------------------------------------------------
(* The script run of a session: Tab 1 with a single ticker, then Tab 2 *)
(* (every run of the script renders all the tabs).                      *)

\* Entries of the selectbox the user picks from: BRK.B and V.
SessionTickers == {top_50_stocks[8], top_50_stocks[9]}

\* The (start_date, end_date) pairs the user enters.
Ranges == 1..MaxRange

Forecastable(fc) == fc[1] # None /\ fc[2] # None

\* Tab 2 (lines 158-169) on session state `sess`: what it shows, and for which
\* symbol and series.
OptionsAnalysisView(sess) ==
    IF sess.selected_stock = NoTicker
    THEN [NoView EXCEPT !.shown = "prompt"]
    ELSE [shown |-> IF Forecastable(predict_price_movement(sess.stock_data, DefaultDays))
                    THEN "analysis" ELSE "error",
          symbol |-> Normalize(sess.selected_stock),
          stock_data |-> sess.stock_data]

OptionsAnalysisRequests(sess) ==
    IF sess.selected_stock = NoTicker THEN {}
    ELSE {[api |-> "Ticker", symbol |-> Normalize(sess.selected_stock)]}

InitSession ==
    /\ pc = "idle"
    /\ SessionIdle
    /\ cache = [key \in SessionTickers \X Ranges |-> Miss]
    /\ requests = {}
    /\ ForecastIdle /\ ScreenIdle /\ BatchIdle

\* "Analyze Stock" pressed with one ticker selected (lines 140-155), followed
\* by Tab 2 of the same run.
AnalyzeStock ==
    /\ pc = "idle"
    /\ \E selected_stock \in SessionTickers, rng \in Ranges :
       \E resp \in Responses(Normalize(selected_stock)) :
        LET stock_data == fetch_stock_data(cache, selected_stock, rng, resp)
            after == [selected_stock |-> selected_stock,
                      stock_data |-> IF stock_data # None THEN stock_data
                                     ELSE session.stock_data]
            fc == predict_price_movement(stock_data, DefaultDays)
            tab1 == fetch_requests(cache, selected_stock, rng)
                        \cup (IF stock_data # None /\ Forecastable(fc)
                              THEN {[api |-> "Ticker", symbol |-> selected_stock]}
                              ELSE {})
        IN /\ session' = after
           /\ cache' = [cache EXCEPT ![<<selected_stock, rng>>] = stock_data]
           /\ requests' = requests \cup tab1 \cup OptionsAnalysisRequests(after)
           /\ options_view' = OptionsAnalysisView(after)
    /\ UNCHANGED <<pc, forecastVars, screenVars, batchVars>>

\* A run of the script with no button pressed: only Tab 2 acts.
Rerun ==
    /\ pc = "idle"
    /\ requests' = requests \cup OptionsAnalysisRequests(session)
    /\ options_view' = OptionsAnalysisView(session)
    /\ UNCHANGED <<pc, session, cache, forecastVars, screenVars, batchVars>>

NextSession == AnalyzeStock \/ Rerun

SpecSession == InitSession /\ [][NextSession]_vars

----------------------------------------------------------------------------
(* Properties of predict_price_movement, under SpecForecast *)

Finite(y) == \A i \in DOMAIN y : y[i] # NaN

\* close[i] = a*i + b over 0-based day indices i, with b = y[1] and a = y[2] - y[1]
Linear(y) == Finite(y) /\ \A i \in DOMAIN y : y[i] = y[1] + (y[2] - y[1]) * (i - 1)

\* C2: for a perfectly linear series close[i] = a*i + b of length len >= 2 and
\* a horizon h >= 1, predict_price_movement returns currentPrice = the last
\* close and predictedPrice = a*(len-1+h) + b.
C2_LinearExtrapolation ==
    (/\ pc = "done" /\ data # None /\ days >= 1
     /\ Len(data.Close) >= 2 /\ Linear(data.Close)) =>
            LET y == data.Close
                a == y[2] - y[1]
                b == y[1]
            IN /\ Forecastable(forecast)
               /\ forecast[2].num = (a * (Len(y) - 1 + days) + b) * forecast[2].den
               /\ forecast[1].num = (a * (Len(y) - 1) + b) * forecast[1].den

\* The scenario: closes 100..104 and horizon 7 give 111 from 104.
C2_Witness ==
    /\ pc = "done"
    /\ data = [Close |-> ScenarioSeries]
    /\ days = 7
    /\ Forecastable(forecast)
    /\ forecast[1] = Float(104)
    /\ forecast[2].num = 111 * forecast[2].den

\* C3 as stated: the null result for an absent, empty or 1-bar series, and for
\* every series of 2 or more bars (horizon 7) a non-null result whose
\* currentPrice is the last close.
C3_AsClaimed ==
    pc = "done" =>
        /\ (data = None \/ Len(data.Close) < 2) => forecast = <<None, None>>
        /\ (data # None /\ Len(data.Close) >= 2 /\ days = 7) =>
               /\ Forecastable(forecast)
               /\ forecast[1].num = data.Close[Len(data.Close)] * forecast[1].den

\* C3 amended: the null result for an absent, empty or 1-bar series; for every
\* series of 2 or more bars whose closes are all finite numbers (horizon 7) a
\* non-null result whose currentPrice is the last close; and the null result for
\* a series with a NaN close, on which the fit raises.
C3_NullOrLastClose ==
    pc = "done" =>
        /\ (data = None \/ Len(data.Close) < 2) => forecast = <<None, None>>
        /\ (data # None /\ Len(data.Close) >= 2 /\ days = 7) =>
               IF Finite(data.Close)
               THEN /\ Forecastable(forecast)
                    /\ forecast[1].num = data.Close[Len(data.Close)] * forecast[1].den
               ELSE forecast = <<None, None>>

C3_Witness ==
    /\ pc = "done"
    /\ data # None
    /\ Len(data.Close) >= 2
    /\ Finite(data.Close)
    /\ data.Close[1] # data.Close[Len(data.Close)]
    /\ days = 7
    /\ Forecastable(forecast)
    /\ forecast[1] = Float(data.Close[Len(data.Close)])

----------------------------------------------------------------------------
(* Properties of analyze_single_stock, under SpecScreen *)

ChainAvailable ==
    /\ stock.info = "ok"
    /\ stock.options # <<>>
    /\ stock.option_chain[stock.options[1]] # None

\* C1: with an option chain available and a current price c > 0, exactly one
\* recommendation is emitted: BUY_CALLS iff p > 1.05*c, BUY_PUTS iff
\* p < 0.95*c, HOLD otherwise, so p = 1.05*c and p = 0.95*c give HOLD.
C1_RecommendationThresholds ==
    (pc = "done" /\ ChainAvailable /\ current_price.num > 0) =>
        LET c == current_price
            p == predicted_price
            above == 100 * p.num * c.den > 105 * c.num * p.den
            below == 100 * p.num * c.den < 95 * c.num * p.den
        IN /\ analysis.recommendation \in {"BUY_CALLS", "BUY_PUTS", "HOLD"}
           /\ analysis.recommendation = "BUY_CALLS" <=> above
           /\ analysis.recommendation = "BUY_PUTS" <=> below
           /\ analysis.recommendation = "HOLD" <=> (~above /\ ~below)

\* A prediction of exactly 1.05 times the current price is answered HOLD.
C1_Witness ==
    /\ pc = "done"
    /\ ChainAvailable
    /\ 100 * predicted_price.num * current_price.den
            = 105 * current_price.num * predicted_price.den
    /\ analysis.recommendation = "HOLD"

InRange(contract, c) ==
    /\ 95 * c.num * contract.strike.den <= 100 * contract.strike.num * c.den
    /\ 100 * contract.strike.num * c.den <= 105 * c.num * contract.strike.den

Range(s) == {s[i] : i \in DOMAIN s}

ExactlyInRange(shown, chain, c) ==
    /\ Range(shown) = {k \in Range(chain) : InRange(k, c)}
    /\ Len(shown) = Cardinality({i \in DOMAIN chain : InRange(chain[i], c)})

\* C4: the relevant calls and puts are exactly the contracts of the chain of
\* the first expiry whose strike lies in [0.95*c, 1.05*c], both ends included,
\* c being the current price.
C4_RelevantStrikes ==
    (pc = "done" /\ ChainAvailable) =>
        LET chain == stock.option_chain[stock.options[1]]
        IN /\ ExactlyInRange(analysis.relevant_calls, chain.calls, current_price)
           /\ ExactlyInRange(analysis.relevant_puts, chain.puts, current_price)

\* A call struck at exactly 0.95*c is kept and a put outside the range is
\* dropped, while the predicted price is not the current one.
C4_Witness ==
    /\ pc = "done"
    /\ ChainAvailable
    /\ ~Eq(predicted_price, current_price)
    /\ \E k \in Range(analysis.relevant_calls) :
           100 * k.strike.num * current_price.den = 95 * current_price.num * k.strike.den
    /\ \E k \in Range(stock.option_chain[stock.options[1]].puts) :
           k \notin Range(analysis.relevant_puts)

----------------------------------------------------------------------------
(* Properties of find_top_recommendations, under SpecBatch *)

\* Positions of the universe whose load succeeded and whose forecast is not
\* null: no exception, a frame, two bars or more.
ValidPositions ==
    {i \in DOMAIN processed :
        /\ ~processed[i].raised
        /\ processed[i].stock_data # None
        /\ Len(processed[i].stock_data.Close) >= 2}

ValidTickers == {processed[i].ticker : i \in ValidPositions}

Selected == {Ticker(sorted_results[i]) : i \in DOMAIN sorted_results}

MovementOf(entry) ==
    LET d == entry[3].num * entry[2].den - entry[2].num * entry[3].den
    IN [num |-> IF d < 0 THEN 0 - d ELSE d, den |-> entry[3].den * entry[2].den]

AtMost(a, b) == a.num * b.den <= b.num * a.den

\* C5: after the ranking step the selection holds exactly min(5, validCount)
\* distinct valid tickers, in non-increasing order of movement
\* |predicted - current|, and no valid ticker left out moves more than a
\* selected one.
C5_TopFiveByMovement ==
    pc \in {"screen", "done"} =>
        /\ Len(sorted_results)
              = IF Cardinality(ValidTickers) < 5 THEN Cardinality(ValidTickers) ELSE 5
        /\ Cardinality(Selected) = Len(sorted_results)
        /\ Selected \subseteq ValidTickers
        /\ \A i \in DOMAIN sorted_results :
              /\ AtMost(Movement(sorted_results[i]), MovementOf(sorted_results[i]))
              /\ AtMost(MovementOf(sorted_results[i]), Movement(sorted_results[i]))
              /\ \E j \in DOMAIN results : results[j] = sorted_results[i]
        /\ \A i \in 1..(Len(sorted_results) - 1) :
              AtMost(MovementOf(sorted_results[i + 1]), MovementOf(sorted_results[i]))
        /\ \A j \in DOMAIN results :
              Ticker(results[j]) \notin Selected =>
                  \A i \in DOMAIN sorted_results :
                      AtMost(MovementOf(results[j]), MovementOf(sorted_results[i]))

\* Six valid tickers, five selected, the one left out moves less than the
\* first selected, which is not the first of the universe.
C5_Witness ==
    /\ pc = "done"
    /\ Cardinality(ValidTickers) = 6
    /\ Len(sorted_results) = 5
    /\ Ticker(sorted_results[1]) # Ticker(results[1])
    /\ \E j \in DOMAIN results :
          /\ Ticker(results[j]) \notin Selected
          /\ ~AtMost(MovementOf(sorted_results[1]), MovementOf(results[j]))

\* C6: whatever the outcomes, the loop takes every ticker of the universe
\* exactly once and in universe order, a failing ticker does not stop it, and
\* the candidates that reach the ranking step are exactly the tickers whose
\* load succeeded and whose forecast is not null.
C6_EveryTickerOnce ==
    /\ Len(processed) <= Len(Universe)
    /\ \A i \in DOMAIN processed : processed[i].ticker = Universe[i]
    /\ pc = "load" => Len(processed) = idx - 1
    /\ pc # "load" =>
          /\ Len(processed) = Len(Universe)
          /\ Len(valid_results(results)) = Cardinality(ValidPositions)
          /\ {Ticker(valid_results(results)[j]) : j \in DOMAIN valid_results(results)}
                = ValidTickers

\* All four outcomes in one run, a success coming after the failures.
C6_Witness ==
    /\ pc = "rank"
    /\ \E i, j, k, l \in DOMAIN processed :
          /\ i < l /\ j < l /\ k < l
          /\ processed[i].raised
          /\ ~processed[j].raised /\ processed[j].stock_data = None
          /\ processed[k].stock_data # None /\ Len(processed[k].stock_data.Close) = 1
          /\ l \in ValidPositions
          /\ \E e \in DOMAIN results : Ticker(results[e]) = Universe[l]

\* C7: when no ticker gives a valid forecast the run ends normally with the
\* "no valid recommendations" warning, an empty selection and no request to
\* the options-chain provider.
C7_NoValidRecommendations ==
    (pc \notin {"load", "rank"} /\ ValidTickers = {}) =>
        /\ pc = "done"
        /\ warnings.no_valid = 1
        /\ sorted_results = <<>>
        /\ screened = <<>>
        /\ \A r \in requests : r.api # "Ticker"

\* Every load failed or gave a 1-bar series, with no exception.
C7_Witness ==
    /\ pc = "done"
    /\ Len(processed) = Len(Universe)
    /\ \A i \in DOMAIN processed : ~processed[i].raised
    /\ \E i \in DOMAIN processed : processed[i].stock_data = None
    /\ \E i \in DOMAIN processed : processed[i].stock_data # None
    /\ ValidTickers = {}
    /\ warnings.no_valid = 1

\* C9: the screener runs only for the tickers of the selection, once each and
\* in ranked order, its first run comes after the loop has taken the whole
\* universe, and a failure while screening one ticker does not keep it from
\* the tickers ranked after it.
C9_ScreenerOrder ==
    /\ Len(screened) <= Len(sorted_results)
    /\ \A i \in DOMAIN screened : screened[i] = Ticker(sorted_results[i])
    /\ \A i, j \in DOMAIN screened : i # j => screened[i] # screened[j]
    /\ pc \in {"load", "rank"} => screened = <<>>
    /\ screened # <<>> => Len(processed) = Len(Universe)
    /\ (\E r \in requests : r.api = "Ticker") => Len(processed) = Len(Universe)
    /\ pc = "screen" => Len(screened) = idx - 1
    /\ pc = "done" => Len(screened) = Len(sorted_results)

\* Five tickers screened although the screener failed on two of them or more.
C9_Witness ==
    /\ pc = "done"
    /\ Len(screened) = 5
    /\ Cardinality(ValidTickers) = 6
    /\ warnings.options >= 2
    /\ warnings.options < 5

----------------------------------------------------------------------------
(* Properties of the session, under SpecSession *)

\* The company a price series belongs to, by its price level.
SeriesOf(frame, ticker) == frame.Close[1] = PriceLevel(ticker)

\* C8 as stated: the series of the session state is the one loaded for the
\* last-selected ticker, or absent, and the Options Analysis view never
\* forecasts one ticker's series while it queries options for another.
C8_AsClaimed ==
    /\ session.stock_data # None =>
          /\ session.selected_stock # NoTicker
          /\ SeriesOf(session.stock_data, session.selected_stock)
    /\ (options_view.symbol # NoTicker /\ options_view.stock_data # None) =>
          SeriesOf(options_view.stock_data, options_view.symbol)

\* C10 as stated: every request to a provider carries the normalized symbol,
\* in which no "." is left.
C10_AsClaimed ==
    \A r \in requests : \A i \in DOMAIN r.symbol : r.symbol[i] # "."

====
